---- MODULE Spec2Model ----
(***************************************************************************)
(* A model of the credit-card statement parser: the normalizers and the    *)
(* pattern matcher (parser/utils.py), the issuer detector                  *)
(* (parser/detect_issuer.py), the five issuer grammars (parser/hdfc.py,    *)
(* icici.py, axis.py, chase.py, idfc.py), parse_statement and the command  *)
(* line entry point (main.py), and the two HTTP handlers (api/parse.py,    *)
(* backend/app.py).                                                        *)
(*                                                                         *)
(* A Python str is a sequence of one-character strings; a character        *)
(* outside ASCII is named by its code point ("U+20B9" is the rupee sign).  *)
(* Regular expressions are sequences of nodes matched by a backtracking    *)
(* matcher with Python's priorities (leftmost start, greedy and lazy       *)
(* quantifiers, ordered alternation, capture groups).                      *)
(***************************************************************************)
EXTENDS Integers, Sequences, FiniteSets, TLC

VARIABLES
    pc,         \* the position of the running call
    entry,      \* "main" (command line), "parse_handler", "api_parse"
    request,    \* the HTTP request being handled (None on the command line)
    pdf,        \* the file at pdf_path: [exists, readable, text]
    tmp,        \* the upload's temporary file: "none", "exists", "removed"
    text,       \* parse_statement's local: the extracted text
    issuer,     \* parse_statement's local: detect_issuer's return value
    parser,     \* the parser function parse_statement dispatched to
    result,     \* the parser's local: the Statement under construction
    warned,     \* fields for which the parser logged a warning
    raised,     \* the exception in flight
    returned,   \* parse_statement's return value
    response,   \* the response (HTTP) or exit (command line) produced
    arg,        \* normalizer harness: the input
    once,       \* normalizer harness: f(arg)
    twice       \* normalizer harness: f(f(arg))

vars == <<pc, entry, request, pdf, tmp, text, issuer, parser, result, warned,
          raised, returned, response, arg, once, twice>>

-----------------------------------------------------------------------------
(* Python values *)

\* Python's None. Distinct from every str: the characters of a str are
\* one-character strings.
None == <<"None">>

\* bool(s) of a str or None, as in "if not amount_str" and "if card_digits".
Truthy(s) == s # None /\ Len(s) > 0

LowerLetters == <<"a","b","c","d","e","f","g","h","i","j","k","l","m","n","o","p","q","r","s","t","u","v","w","x","y","z">>
UpperLetters == <<"A","B","C","D","E","F","G","H","I","J","K","L","M","N","O","P","Q","R","S","T","U","V","W","X","Y","Z">>

\* str.upper() and str.lower() of one character (of the model's alphabet).
ToUpper(c) == IF \E i \in 1..26 : LowerLetters[i] = c THEN UpperLetters[CHOOSE i \in 1..26 : LowerLetters[i] = c] ELSE c
ToLower(c) == IF \E i \in 1..26 : UpperLetters[i] = c THEN LowerLetters[CHOOSE i \in 1..26 : UpperLetters[i] = c] ELSE c

\* text.upper()
Upper(s) == [i \in 1..Len(s) |-> ToUpper(s[i])]

\* The characters str.strip() removes and \s matches.
Whitespace == {" ", "\n", "\t", "\r"}
\* \d
Digits == {"0","1","2","3","4","5","6","7","8","9"}
Letters == {LowerLetters[i] : i \in 1..26} \cup {UpperLetters[i] : i \in 1..26}
\* \w
WordChars == Letters \cup Digits \cup {"_"}

RECURSIVE LStrip(_)
LStrip(s) == IF Len(s) > 0 /\ Head(s) \in Whitespace THEN LStrip(Tail(s)) ELSE s
RECURSIVE RStrip(_)
RStrip(s) == IF Len(s) > 0 /\ s[Len(s)] \in Whitespace THEN RStrip(SubSeq(s, 1, Len(s) - 1)) ELSE s
\* str.strip()
Strip(s) == RStrip(LStrip(s))

-----------------------------------------------------------------------------
(* Regular expressions (module re) *)

\* The number of capture groups of the largest pattern (the transaction
\* patterns of hdfc.py and axis.py have four).
MaxGroup == 4

\* Unbounded repetition (*, +).
Inf == -1

\* Nodes.
Ch(S) == [t |-> "set", s |-> S, neg |-> FALSE]   \* one character of the set S
NotCh(S) == [t |-> "set", s |-> S, neg |-> TRUE] \* one character outside S: [^...]
Dot == [t |-> "any"]                             \* . under re.DOTALL
Eol == [t |-> "eol"]                             \* $ without re.MULTILINE
Open(g) == [t |-> "open", g |-> g]               \* ( of group g
Close(g) == [t |-> "close", g |-> g]             \* ) of group g
Alt(as) == [t |-> "alt", a |-> as]               \* a1|a2|...
Rep(b, min, max, lazy) == [t |-> "rep", b |-> b, min |-> min, max |-> max, lazy |-> lazy]

Grp(g, b) == <<Open(g)>> \o b \o <<Close(g)>>    \* (b)
Star(n) == Rep(<<n>>, 0, Inf, FALSE)             \* n*
Plus(n) == Rep(<<n>>, 1, Inf, FALSE)             \* n+
LazyStar(n) == Rep(<<n>>, 0, Inf, TRUE)          \* n*?
LazyPlus(n) == Rep(<<n>>, 1, Inf, TRUE)          \* n+?
Opt(b) == Rep(b, 0, 1, FALSE)                    \* (?:b)?
Times(n, lo, hi) == Rep(<<n>>, lo, hi, FALSE)    \* n{lo,hi}
N(n, c) == <<[t |-> "lit", cs |-> [i \in 1..c |-> n.s]]>>   \* n{c}, n a set

\* A literal, case-sensitive (no flag) and under re.IGNORECASE.
\* (One node: a sequence of character sets, matched in one step.)
Lit(str) == <<[t |-> "lit", cs |-> [i \in 1..Len(str) |-> {str[i]}]]>>
LitI(str) == <<[t |-> "lit", cs |-> [i \in 1..Len(str) |-> {ToLower(str[i]), ToUpper(str[i])}]]>>
\* A character set under re.IGNORECASE.
ChI(S) == Ch(S \cup {ToLower(c) : c \in S} \cup {ToUpper(c) : c \in S})

S1 == Plus(Ch(Whitespace))                       \* \s+
S0 == Star(Ch(Whitespace))                       \* \s*
D == Ch(Digits)                                  \* \d

NoMatch == [ok |-> FALSE]
NoGroups == [g \in 1..MaxGroup |-> <<0, 0>>]

Dec(n) == IF n = Inf THEN Inf ELSE n - 1
Least(S) == CHOOSE x \in S : \A y \in S : x <= y
Most(S) == CHOOSE x \in S : \A y \in S : x >= y

\* How many characters from position i on match node n (a set or a dot), at most max.
RunLen(s, i, n, max) ==
    LET left == Len(s) - i + 1
        limit == IF max = Inf \/ max > left THEN left ELSE max
    IN IF n.t = "any" THEN limit
       ELSE Most({j \in 0..limit : \A q \in 0..(j - 1) : (s[i + q] \in n.s) # n.neg})

\* The first of two paths that succeeds.
OrElse(first, second) == IF first.ok THEN first ELSE second

\* Of the paths tries[j] (j repetitions taken), the one a lazy quantifier
\* (fewest first) or a greedy one (most first) reaches first.
Preferred(tries, lazy) ==
    LET good == {j \in DOMAIN tries : tries[j].ok}
    IN IF good = {} THEN NoMatch ELSE tries[IF lazy THEN Least(good) ELSE Most(good)]

\* The backtracking matcher: the nodes k matched against s from position i, the
\* groups so far in caps. The first success in Python's order of preference.
RECURSIVE MatchAt(_, _, _, _)
MatchAt(s, k, i, caps) ==
    IF Len(k) = 0 THEN [ok |-> TRUE, end |-> i, caps |-> caps]
    ELSE LET h == Head(k)
             rest == Tail(k)
         IN CASE h.t = "set" ->
                     IF i <= Len(s) /\ ((s[i] \in h.s) # h.neg) THEN MatchAt(s, rest, i + 1, caps) ELSE NoMatch
              [] h.t = "lit" ->
                     IF i + Len(h.cs) - 1 <= Len(s) /\ \A q \in 1..Len(h.cs) : s[i + q - 1] \in h.cs[q]
                     THEN MatchAt(s, rest, i + Len(h.cs), caps) ELSE NoMatch
              [] h.t = "any" ->
                     IF i <= Len(s) THEN MatchAt(s, rest, i + 1, caps) ELSE NoMatch
              [] h.t = "eol" ->
                     IF i = Len(s) + 1 \/ (i = Len(s) /\ s[i] = "\n") THEN MatchAt(s, rest, i, caps) ELSE NoMatch
              [] h.t = "open" -> MatchAt(s, rest, i, [caps EXCEPT ![h.g] = <<i, 0>>])
              [] h.t = "close" -> MatchAt(s, rest, i, [caps EXCEPT ![h.g] = <<caps[h.g][1], i>>])
              [] h.t = "alt" ->
                     IF Len(h.a) = 0 THEN NoMatch
                     ELSE OrElse(MatchAt(s, Head(h.a) \o rest, i, caps),
                                 MatchAt(s, <<Alt(Tail(h.a))>> \o rest, i, caps))
              [] h.t = "rep" /\ Len(h.b) = 1 /\ h.b[1].t \in {"set", "any"} ->
                     \* a repeated single character: each count is one path
                     Preferred([j \in h.min..RunLen(s, i, h.b[1], h.max) |-> MatchAt(s, rest, i + j, caps)], h.lazy)
              [] h.t = "rep" /\ h.max = 0 -> MatchAt(s, rest, i, caps)
              [] h.t = "rep" /\ h.min > 0 ->
                     MatchAt(s, h.b \o <<Rep(h.b, h.min - 1, Dec(h.max), h.lazy)>> \o rest, i, caps)
              [] h.t = "rep" /\ h.lazy ->
                     OrElse(MatchAt(s, rest, i, caps),
                            MatchAt(s, h.b \o <<Rep(h.b, 0, Dec(h.max), h.lazy)>> \o rest, i, caps))
              [] OTHER ->
                     OrElse(MatchAt(s, h.b \o <<Rep(h.b, 0, Dec(h.max), h.lazy)>> \o rest, i, caps),
                            MatchAt(s, rest, i, caps))

\* The match at the leftmost start, tries[j] being the attempt at position j.
Leftmost(tries) ==
    LET starts == {j \in DOMAIN tries : tries[j].ok}
    IN IF starts = {} THEN NoMatch
       ELSE [ok |-> TRUE, start |-> Least(starts), end |-> tries[Least(starts)].end, caps |-> tries[Least(starts)].caps]

\* re.search from position i on.
SearchFrom(s, re, i) == Leftmost([j \in i..(Len(s) + 1) |-> MatchAt(s, re, j, NoGroups)])

\* re.search(pattern, text, flags)
Search(s, re) == SearchFrom(s, re, 1)

\* match.group(g): None for a group that took no part in the match.
Group(s, m, g) == IF m.caps[g][2] = 0 THEN None ELSE SubSeq(s, m.caps[g][1], m.caps[g][2] - 1)

\* re.finditer: the non-overlapping matches, left to right, m being the next.
RECURSIVE FindIter(_, _, _)
Matches(s, re, m) ==
    IF ~m.ok THEN <<>>
    ELSE <<m>> \o FindIter(s, re, IF m.end > m.start THEN m.end ELSE m.end + 1)
FindIter(s, re, i) == Matches(s, re, SearchFrom(s, re, i))

-----------------------------------------------------------------------------
(* parser/utils.py *)

\* find_pattern(text, pattern, group=1): re.IGNORECASE | re.DOTALL are in the
\* pattern's nodes (LitI, ChI, Dot).
\* "if match: return match.group(group).strip()", else None.
GroupOrNone(t, match, group) == IF match.ok THEN Strip(Group(t, match, group)) ELSE None
find_pattern(t, pattern, group) == GroupOrNone(t, Search(t, pattern), group)

\* clean_amount(amount_str)
clean_amount(amount_str) == IF ~Truthy(amount_str) THEN None ELSE Strip(amount_str)

\* normalize_date(date_str)
normalize_date(date_str) == IF ~Truthy(date_str) THEN None ELSE Strip(date_str)

-----------------------------------------------------------------------------
(* parser/detect_issuer.py *)

IssuerTags == {"HDFC", "ICICI", "AXIS", "CHASE", "IDFC"}

NoException == [type |-> "none", msg |-> <<>>]

\* The message of the error detect_issuer raises, in its parts.
UnsupportedMessage ==
    <<"Unable to detect credit card issuer. ", "Supported issuers: ",
      "HDFC Bank", ", ", "ICICI Bank", ", ", "Axis Bank", ", ", "Chase", ", ", "IDFC First Bank">>

\* The signatures, searched in text.upper() with no flag.
SigHDFC == Lit(<<"H","D","F","C">>) \o <<S1>> \o Lit(<<"B","A","N","K">>)                      \* HDFC\s+BANK
SigICICI == Lit(<<"I","C","I","C","I">>) \o <<S1>> \o Lit(<<"B","A","N","K">>)                    \* ICICI\s+BANK
SigAXIS == Lit(<<"A","X","I","S">>) \o <<S1>> \o Lit(<<"B","A","N","K">>)                      \* AXIS\s+BANK
SigCHASE == Lit(<<"C","H","A","S","E">>) \o <<S1>> \o Lit(<<"B","A","N","K">>)                    \* CHASE\s+BANK
SigJPMORGAN == Lit(<<"J","P","M","O","R","G","A","N">>) \o <<S1>> \o Lit(<<"C","H","A","S","E">>)             \* JPMORGAN\s+CHASE
SigIDFCFIRST == Lit(<<"I","D","F","C">>) \o <<S1>> \o Lit(<<"F","I","R","S","T">>) \o <<S1>> \o Lit(<<"B","A","N","K">>)  \* IDFC\s+FIRST\s+BANK
SigIDFC == Lit(<<"I","D","F","C">>) \o <<S1>> \o Lit(<<"B","A","N","K">>)                      \* IDFC\s+BANK

\* return "TAG"
Detected(tag) == [value |-> tag, raised |-> NoException]
\* A detector that falls back to a default issuer where detect_issuer raises.
DetectedByDefault == Detected("HDFC")

\* raise UnsupportedIssuerError(...)
Undetected == [value |-> "unset", raised |-> [type |-> "UnsupportedIssuerError", msg |-> UnsupportedMessage]]

\* A detector that tests the ICICI signature before the HDFC one.
FirstSignatureReordered(text_upper) ==
    IF Search(text_upper, SigICICI).ok THEN Detected("ICICI")
    ELSE IF Search(text_upper, SigHDFC).ok THEN Detected("HDFC")
    ELSE IF Search(text_upper, SigAXIS).ok THEN Detected("AXIS")
    ELSE IF Search(text_upper, SigCHASE).ok \/ Search(text_upper, SigJPMORGAN).ok THEN Detected("CHASE")
    ELSE IF Search(text_upper, SigIDFCFIRST).ok \/ Search(text_upper, SigIDFC).ok THEN Detected("IDFC")
    ELSE Undetected

\* The chain of tests of detect_issuer on text_upper.
FirstSignature(text_upper) ==
    IF Search(text_upper, SigHDFC).ok THEN Detected("HDFC")
    ELSE IF Search(text_upper, SigICICI).ok THEN Detected("ICICI")
    ELSE IF Search(text_upper, SigAXIS).ok THEN Detected("AXIS")
    ELSE IF Search(text_upper, SigCHASE).ok \/ Search(text_upper, SigJPMORGAN).ok THEN Detected("CHASE")
    ELSE IF Search(text_upper, SigIDFCFIRST).ok \/ Search(text_upper, SigIDFC).ok THEN Detected("IDFC")
    ELSE Undetected

\* detect_issuer(text): the tag returned, or the exception raised.
detect_issuer(t) == FirstSignature(Upper(t))

-----------------------------------------------------------------------------
(* The patterns of the issuer grammars *)

\* \d{1,2}/\d{1,2}/\d{4}
DateDMY == <<Times(D, 1, 2)>> \o Lit(<<"/">>) \o <<Times(D, 1, 2)>> \o Lit(<<"/">>) \o N(D, 4)
\* \d{1,2}/\d{1,2}/\d{2,4}
DateMDY == <<Times(D, 1, 2)>> \o Lit(<<"/">>) \o <<Times(D, 1, 2)>> \o Lit(<<"/">>) \o <<Times(D, 2, 4)>>
\* \d{1,2}[-/]\w+[-/]\d{4}
DateDMonY == <<Times(D, 1, 2), Ch({"-", "/"}), Plus(Ch(WordChars)), Ch({"-", "/"})>> \o N(D, 4)
\* [A-Z0-9 ,.&\-\/]+? under re.IGNORECASE
Description == LazyPlus(ChI({UpperLetters[i] : i \in 1..26} \cup Digits \cup {" ", ",", ".", "&", "-", "/"}))
\* -?\d{1,3}(?:,\d{3})*(?:\.\d{2})
SignedAmount == <<Opt(Lit(<<"-">>)), Times(D, 1, 3), Rep(Lit(<<",">>) \o N(D, 3), 0, Inf, FALSE)>> \o Lit(<<".">>) \o N(D, 2)
\* [\d,]+\.?\d*
LooseAmount == <<Plus(Ch(Digits \cup {","})), Opt(Lit(<<".">>)), Star(D)>>
\* (Cr|Dr)? as group g, under re.IGNORECASE
Marker(g) == <<Rep(Grp(g, <<Alt(<<LitI(<<"C","r">>), LitI(<<"D","r">>)>>)>>), 0, 1, FALSE)>>

\* hdfc.py
\* Card\s+No:\s*(\d{4})
HdfcCardPattern == LitI(<<"C","a","r","d">>) \o <<S1>> \o LitI(<<"N","o",":">>) \o <<S0>> \o Grp(1, N(D, 4))
\* Statement\s+Date:\s*(\d{1,2}/\d{1,2}/\d{4})
HdfcDatePattern == LitI(<<"S","t","a","t","e","m","e","n","t">>) \o <<S1>> \o LitI(<<"D","a","t","e",":">>) \o <<S0>> \o Grp(1, DateDMY)
\* Statement\s+for\s+.*?(\d{2}/\d{4})
HdfcMonthPattern == LitI(<<"S","t","a","t","e","m","e","n","t">>) \o <<S1>> \o LitI(<<"f","o","r">>) \o <<S1, LazyStar(Dot)>> \o Grp(1, N(D, 2) \o Lit(<<"/">>) \o N(D, 4))
\* Payment\s+Due\s+Date\s+Total\s+Dues\s+Minimum\s+Amount\s+Due
HdfcSummaryHeader ==
    LitI(<<"P","a","y","m","e","n","t">>) \o <<S1>> \o LitI(<<"D","u","e">>) \o <<S1>> \o LitI(<<"D","a","t","e">>) \o <<S1>> \o LitI(<<"T","o","t","a","l">>) \o <<S1>>
    \o LitI(<<"D","u","e","s">>) \o <<S1>> \o LitI(<<"M","i","n","i","m","u","m">>) \o <<S1>> \o LitI(<<"A","m","o","u","n","t">>) \o <<S1>> \o LitI(<<"D","u","e">>)
\* <header>.*?(\d{1,2}/\d{1,2}/\d{4})
HdfcDuePattern == HdfcSummaryHeader \o <<LazyStar(Dot)>> \o Grp(1, DateDMY)
\* <header>.*?\d{1,2}/\d{1,2}/\d{4}\s+([\d,]+\.?\d*)
HdfcTotalPattern == HdfcSummaryHeader \o <<LazyStar(Dot)>> \o DateDMY \o <<S1>> \o Grp(1, LooseAmount)
\* Total\s+Dues[^\d]*(\d{1,3}(?:,\d{3})*(?:\.\d{2})?)
HdfcTotalAltPattern ==
    LitI(<<"T","o","t","a","l">>) \o <<S1>> \o LitI(<<"D","u","e","s">>) \o <<Star(NotCh(Digits))>>
    \o Grp(1, <<Times(D, 1, 3), Rep(Lit(<<",">>) \o N(D, 3), 0, Inf, FALSE), Opt(Lit(<<".">>) \o N(D, 2))>>)
\* (\d{1,2}/\d{1,2}/\d{4})\s+([A-Z0-9 ,.&\-\/]+?)\s+(-?\d{1,3}(?:,\d{3})*(?:\.\d{2}))\s*(Cr|Dr)?
HdfcTxPattern == Grp(1, DateDMY) \o <<S1>> \o Grp(2, <<Description>>) \o <<S1>> \o Grp(3, SignedAmount) \o <<S0>> \o Marker(4)

\* icici.py
\* (?:card\s+(?:number|no\.?):?.*?)(\d{4})(?:\s|$|\.)
IciciCardPattern ==
    LitI(<<"c","a","r","d">>) \o <<S1, Alt(<<LitI(<<"n","u","m","b","e","r">>), LitI(<<"n","o">>) \o <<Opt(Lit(<<".">>))>> >>), Opt(Lit(<<":">>)), LazyStar(Dot)>>
    \o Grp(1, N(D, 4)) \o <<Alt(<< <<Ch(Whitespace)>>, <<Eol>>, Lit(<<".">>) >>)>>
\* \d{1,2}[-/]\w+[-/]\d{4}\s+(?:to|-)\s+\d{1,2}[-/]\w+[-/]\d{4}
IciciRange == DateDMonY \o <<S1, Alt(<<LitI(<<"t","o">>), Lit(<<"-">>)>>), S1>> \o DateDMonY
\* (?:statement\s+period:?\s*)(<range>)
IciciPeriodPattern == LitI(<<"s","t","a","t","e","m","e","n","t">>) \o <<S1>> \o LitI(<<"p","e","r","i","o","d">>) \o <<Opt(Lit(<<":">>)), S0>> \o Grp(1, IciciRange)
\* (?:due\s+date:?\s*)(\d{1,2}[-/]\w+[-/]\d{4})
IciciDuePattern == LitI(<<"d","u","e">>) \o <<S1>> \o LitI(<<"d","a","t","e">>) \o <<Opt(Lit(<<":">>)), S0>> \o Grp(1, DateDMonY)
\* The three characters the source file holds where a rupee sign was meant,
\* under re.IGNORECASE (U+00C2 is the upper case of U+00E2).
IciciCurrency == <<Ch({"U+00E2", "U+00C2"}), Ch({"U+201A"}), Ch({"U+00B9"})>>
\* (?:total\s+amount\s+due:?\s*)((?:<currency>|Rs\.?)\s*[\d,]+\.?\d*)
IciciTotalPattern ==
    LitI(<<"t","o","t","a","l">>) \o <<S1>> \o LitI(<<"a","m","o","u","n","t">>) \o <<S1>> \o LitI(<<"d","u","e">>) \o <<Opt(Lit(<<":">>)), S0>>
    \o Grp(1, <<Alt(<<IciciCurrency, LitI(<<"R","s">>) \o <<Opt(Lit(<<".">>))>> >>), S0>> \o LooseAmount)
\* (\d{1,2}[-/]\w+[-/]\d{4})\s+([A-Z0-9 ,.&\-\/]+?)\s+(-?\d{1,3}(?:,\d{3})*(?:\.\d{2}))
IciciTxPattern == Grp(1, DateDMonY) \o <<S1>> \o Grp(2, <<Description>>) \o <<S1>> \o Grp(3, SignedAmount)

\* axis.py
\* (?:Credit\s+Card\s+Number|Card\s+No:)\s*\d+\*+(\d{4})
AxisCardPattern ==
    <<Alt(<<LitI(<<"C","r","e","d","i","t">>) \o <<S1>> \o LitI(<<"C","a","r","d">>) \o <<S1>> \o LitI(<<"N","u","m","b","e","r">>),
            LitI(<<"C","a","r","d">>) \o <<S1>> \o LitI(<<"N","o",":">>)>>), S0, Plus(D), Plus(Ch({"*"}))>> \o Grp(1, N(D, 4))
\* \d{1,2}/\d{1,2}/\d{4}\s*-\s*\d{1,2}/\d{1,2}/\d{4}
RangeDMY == DateDMY \o <<S0>> \o Lit(<<"-">>) \o <<S0>> \o DateDMY
\* Statement\s+Period.*?(<range>)
AxisPeriodPattern == LitI(<<"S","t","a","t","e","m","e","n","t">>) \o <<S1>> \o LitI(<<"P","e","r","i","o","d">>) \o <<LazyStar(Dot)>> \o Grp(1, RangeDMY)
\* Payment\s+Due\s+Date.*?<range>\s+(\d{1,2}/\d{1,2}/\d{4})
AxisDuePattern ==
    LitI(<<"P","a","y","m","e","n","t">>) \o <<S1>> \o LitI(<<"D","u","e">>) \o <<S1>> \o LitI(<<"D","a","t","e">>) \o <<LazyStar(Dot)>> \o RangeDMY \o <<S1>> \o Grp(1, DateDMY)
\* Total\s+Payment\s+Due\s+Minimum\s+Payment\s+Due.*?\s+([\d,]+\.?\d*)\s+Dr
AxisTotalPattern ==
    LitI(<<"T","o","t","a","l">>) \o <<S1>> \o LitI(<<"P","a","y","m","e","n","t">>) \o <<S1>> \o LitI(<<"D","u","e">>) \o <<S1>> \o LitI(<<"M","i","n","i","m","u","m">>) \o <<S1>>
    \o LitI(<<"P","a","y","m","e","n","t">>) \o <<S1>> \o LitI(<<"D","u","e">>) \o <<LazyStar(Dot), S1>> \o Grp(1, LooseAmount) \o <<S1>> \o LitI(<<"D","r">>)
\* the transaction pattern of hdfc.py, character for character
AxisTxPattern == Grp(1, DateDMY) \o <<S1>> \o Grp(2, <<Description>>) \o <<S1>> \o Grp(3, SignedAmount) \o <<S0>> \o Marker(4)
\* The prefix axis.py puts before the amount: the source file holds these
\* three characters where hdfc.py and idfc.py hold the rupee sign.
AxisCurrencyPrefix == <<"U+00E2", "U+201A", "U+00B9">>

\* chase.py
\* Account\s+Number.*?(\d{4})
ChaseCardPattern == LitI(<<"A","c","c","o","u","n","t">>) \o <<S1>> \o LitI(<<"N","u","m","b","e","r">>) \o <<LazyStar(Dot)>> \o Grp(1, N(D, 4))
\* (?:Opening/Closing\s+Date|Statement\s+Period)\s+(<date>\s*-\s*<date>)
ChasePeriodPattern ==
    <<Alt(<<LitI(<<"O","p","e","n","i","n","g","/","C","l","o","s","i","n","g">>) \o <<S1>> \o LitI(<<"D","a","t","e">>), LitI(<<"S","t","a","t","e","m","e","n","t">>) \o <<S1>> \o LitI(<<"P","e","r","i","o","d">>)>>), S1>>
    \o Grp(1, DateMDY \o <<S0>> \o Lit(<<"-">>) \o <<S0>> \o DateMDY)
\* Payment\s+Due\s+Date\s+(\d{1,2}/\d{1,2}/\d{2,4})
ChaseDuePattern == LitI(<<"P","a","y","m","e","n","t">>) \o <<S1>> \o LitI(<<"D","u","e">>) \o <<S1>> \o LitI(<<"D","a","t","e">>) \o <<S1>> \o Grp(1, DateMDY)
\* (?:New\s+Balance|Total\s+Payment\s+Due)\s+\$?([\d,]+\.\d{2})
ChaseTotalPattern ==
    <<Alt(<<LitI(<<"N","e","w">>) \o <<S1>> \o LitI(<<"B","a","l","a","n","c","e">>),
            LitI(<<"T","o","t","a","l">>) \o <<S1>> \o LitI(<<"P","a","y","m","e","n","t">>) \o <<S1>> \o LitI(<<"D","u","e">>)>>), S1, Opt(Lit(<<"$">>))>>
    \o Grp(1, <<Plus(Ch(Digits \cup {","}))>> \o Lit(<<".">>) \o N(D, 2))
\* (\d{1,2}/\d{1,2})\s+([A-Z0-9 ,.&\-\/]+?)\s+(-?\d{1,3}(?:,\d{3})*(?:\.\d{2}))
ChaseTxPattern ==
    Grp(1, <<Times(D, 1, 2)>> \o Lit(<<"/">>) \o <<Times(D, 1, 2)>>) \o <<S1>> \o Grp(2, <<Description>>) \o <<S1>> \o Grp(3, SignedAmount)

\* idfc.py
\* Card\s+Number.*?(\d{4})
IdfcCardPattern == LitI(<<"C","a","r","d">>) \o <<S1>> \o LitI(<<"N","u","m","b","e","r">>) \o <<LazyStar(Dot)>> \o Grp(1, N(D, 4))
\* Statement\s+Period\s+(<range>)
IdfcPeriodPattern == LitI(<<"S","t","a","t","e","m","e","n","t">>) \o <<S1>> \o LitI(<<"P","e","r","i","o","d">>) \o <<S1>> \o Grp(1, RangeDMY)
\* Payment\s+Due\s+Date\s+(\d{1,2}/\d{1,2}/\d{4})
IdfcDuePattern == LitI(<<"P","a","y","m","e","n","t">>) \o <<S1>> \o LitI(<<"D","u","e">>) \o <<S1>> \o LitI(<<"D","a","t","e">>) \o <<S1>> \o Grp(1, DateDMY)
\* Total\s+Amount\s+Due\s*(?:<rupee>|Rs\.?)?\s*([\d,]+\.?\d*)
IdfcTotalPattern ==
    LitI(<<"T","o","t","a","l">>) \o <<S1>> \o LitI(<<"A","m","o","u","n","t">>) \o <<S1>> \o LitI(<<"D","u","e">>)
    \o <<S0, Opt(<<Alt(<<Lit(<<"U+20B9">>), LitI(<<"R","s">>) \o <<Opt(Lit(<<".">>))>> >>)>>), S0>> \o Grp(1, LooseAmount)
\* (\d{1,2}/\d{1,2}/\d{4})\s+([A-Z0-9 ,.&\-\/]+?)\s+(-?\d{1,3}(?:,\d{3})*(?:\.\d{2}))
IdfcTxPattern == Grp(1, DateDMY) \o <<S1>> \o Grp(2, <<Description>>) \o <<S1>> \o Grp(3, SignedAmount)

\* The rupee sign hdfc.py and idfc.py put before the amount.
Rupee == <<"U+20B9">>

-----------------------------------------------------------------------------
(* The issuer grammars: what each parser assigns to each key of its result.  *)
(* A key the parser leaves alone keeps the None it was created with.         *)

\* f"{x}" of a str or None.
Format(x) == IF x = None THEN <<"N","o","n","e">> ELSE x

\* An assignment without the "if value" test: a miss leaves an empty str.
IfFoundOrEmpty(value) == IF Truthy(value) THEN value ELSE <<>>

\* "if value: result[key] = value", the else branch logging a warning.
IfFound(value) == IF Truthy(value) THEN value ELSE None
\* "if value: result[key] = normalize_date(value)"
IfFoundDate(value) == IF Truthy(value) THEN normalize_date(value) ELSE None
\* "if value: result[key] = clean_amount(value)"
IfFoundAmount(value) == IF Truthy(value) THEN clean_amount(value) ELSE None
\* "if value: result[key] = f"<prefix>{clean_amount(value)}""
IfFoundPrefixed(prefix, value) == IF Truthy(value) THEN prefix \o Format(clean_amount(value)) ELSE None
\* A chain that lets the second branch's value replace the first's.
IfThenIf(first, second) == IF second # None THEN second ELSE first

\* "if a: ... elif b: ... else: warning", first and second being the values
\* the two branches assign.
IfElif(first, second) == IF first # None THEN first ELSE second

\* One transaction dict.
Transaction(date, description, amount) == [date |-> date, description |-> description, amount |-> amount]

\* amount_clean, or f"-{amount_clean}" after a Cr marker.
Signed(cr_dr, amount_clean) ==
    IF Truthy(cr_dr) /\ [i \in 1..Len(cr_dr) |-> ToLower(cr_dr[i])] = <<"c","r">>
    THEN <<"-">> \o Format(amount_clean)
    ELSE amount_clean

\* The loop body of hdfc.py and axis.py: a trailing Cr negates the amount.
MarkedTransaction(t, match) ==
    Transaction(normalize_date(Group(t, match, 1)), Strip(Group(t, match, 2)),
                Signed(Group(t, match, 4), clean_amount(Group(t, match, 3))))

\* The loop body of icici.py, chase.py and idfc.py: the amount as captured.
PlainTransaction(t, match) ==
    Transaction(normalize_date(Group(t, match, 1)), Strip(Group(t, match, 2)), clean_amount(Group(t, match, 3)))

\* seq without the repetitions of an earlier element.
RECURSIVE Distinct(_)
Distinct(seq) ==
    IF Len(seq) = 0 THEN <<>>
    ELSE IF \E j \in 1..(Len(seq) - 1) : seq[j] = seq[Len(seq)]
    THEN Distinct(SubSeq(seq, 1, Len(seq) - 1))
    ELSE Append(Distinct(SubSeq(seq, 1, Len(seq) - 1)), seq[Len(seq)])

\* A loop that appends a transaction only when the list does not hold it yet.
PlainTransactionsDistinct(t, matches) == Distinct([k \in 1..Len(matches) |-> PlainTransaction(t, matches[k])])

\* for match in re.finditer(tx_pattern, text, re.IGNORECASE): ...append(...)
MarkedTransactions(t, matches) == [k \in 1..Len(matches) |-> MarkedTransaction(t, matches[k])]
PlainTransactions(t, matches) == [k \in 1..Len(matches) |-> PlainTransaction(t, matches[k])]

ParserNames == {"parse_hdfc", "parse_icici", "parse_axis", "parse_chase", "parse_idfc"}

\* The "issuer" each parser writes into its result.
ParserIssuer(p) ==
    CASE p = "parse_hdfc" -> "HDFC" [] p = "parse_icici" -> "ICICI" [] p = "parse_axis" -> "AXIS"
      [] p = "parse_chase" -> "CHASE" [] p = "parse_idfc" -> "IDFC"

\* The value parser p gives each key on text t.
\* result["card_last_4_digits"]
CardOf(p, t) ==
    CASE p = "parse_hdfc" -> IfFound(find_pattern(t, HdfcCardPattern, 1))
      [] p = "parse_icici" -> IfFound(find_pattern(t, IciciCardPattern, 1))
      [] p = "parse_axis" -> IfFound(find_pattern(t, AxisCardPattern, 1))
      [] p = "parse_chase" -> IfFound(find_pattern(t, ChaseCardPattern, 1))
      [] p = "parse_idfc" -> IfFound(find_pattern(t, IdfcCardPattern, 1))
\* result["billing_period"]: parse_hdfc takes the statement date, or else
\* the statement month as found.
BillingOf(p, t) ==
    CASE p = "parse_hdfc" ->
             IfElif(IfFoundDate(find_pattern(t, HdfcDatePattern, 1)), IfFound(find_pattern(t, HdfcMonthPattern, 1)))
      [] p = "parse_icici" -> IfFoundDate(find_pattern(t, IciciPeriodPattern, 1))
      [] p = "parse_axis" -> IfFoundDate(find_pattern(t, AxisPeriodPattern, 1))
      [] p = "parse_chase" -> IfFoundDate(find_pattern(t, ChasePeriodPattern, 1))
      [] p = "parse_idfc" -> IfFoundDate(find_pattern(t, IdfcPeriodPattern, 1))
\* result["payment_due_date"]
DueOf(p, t) ==
    CASE p = "parse_hdfc" -> IfFoundDate(find_pattern(t, HdfcDuePattern, 1))
      [] p = "parse_icici" -> IfFoundDate(find_pattern(t, IciciDuePattern, 1))
      [] p = "parse_axis" -> IfFoundDate(find_pattern(t, AxisDuePattern, 1))
      [] p = "parse_chase" -> IfFoundDate(find_pattern(t, ChaseDuePattern, 1))
      [] p = "parse_idfc" -> IfFoundDate(find_pattern(t, IdfcDuePattern, 1))
\* result["total_amount_due"]: parse_hdfc tries the summary table, or else
\* the "Total Dues" of the account summary.
TotalOf(p, t) ==
    CASE p = "parse_hdfc" ->
             IfElif(IfFoundPrefixed(Rupee, find_pattern(t, HdfcTotalPattern, 1)),
                    IfFoundPrefixed(Rupee, find_pattern(t, HdfcTotalAltPattern, 1)))
      [] p = "parse_icici" -> IfFoundAmount(find_pattern(t, IciciTotalPattern, 1))
      [] p = "parse_axis" -> IfFoundPrefixed(AxisCurrencyPrefix, find_pattern(t, AxisTotalPattern, 1))
      [] p = "parse_chase" -> IfFoundAmount(find_pattern(t, ChaseTotalPattern, 1))
      [] p = "parse_idfc" -> IfFoundPrefixed(Rupee, find_pattern(t, IdfcTotalPattern, 1))
\* result["transactions"]
TransactionsOf(p, t) ==
    CASE p = "parse_hdfc" -> MarkedTransactions(t, FindIter(t, HdfcTxPattern, 1))
      [] p = "parse_icici" -> PlainTransactions(t, FindIter(t, IciciTxPattern, 1))
      [] p = "parse_axis" -> MarkedTransactions(t, FindIter(t, AxisTxPattern, 1))
      [] p = "parse_chase" -> PlainTransactions(t, FindIter(t, ChaseTxPattern, 1))
      [] p = "parse_idfc" -> PlainTransactions(t, FindIter(t, IdfcTxPattern, 1))

-----------------------------------------------------------------------------
(* The inputs: statement texts, as extract_text_from_pdf returns them *)

\* How many transaction lines a generated statement carries at most.
MaxTx == 2

RECURSIVE Join(_)
Join(lines) == IF Len(lines) = 0 THEN <<>> ELSE Head(lines) \o Join(Tail(lines))

\* The lines of `lines` whose index is in S, in order (or in reverse order).
RECURSIVE Pick(_, _, _)
Pick(lines, S, k) ==
    IF k > Len(lines) THEN <<>>
    ELSE (IF k \in S THEN <<lines[k]>> ELSE <<>>) \o Pick(lines, S, k + 1)
Reverse(seq) == [i \in 1..Len(seq) |-> seq[Len(seq) + 1 - i]]

\* All sequences over 1..n of length at most len.
RECURSIVE UpTo(_, _)
UpTo(n, len) ==
    IF len = 0 THEN {<<>>}
    ELSE UpTo(n, len - 1) \cup {Append(q, x) : q \in {r \in UpTo(n, len - 1) : Len(r) = len - 1}, x \in 1..n}

\* One line per issuer carrying its bank-name signature, in priority order
\* (letter case and whitespace vary, as \s+ and upper() allow).
SignatureLines ==
    <<<<"H","D","F","C"," ","B","A","N","K","\n">>, <<"I","C","I","C","I"," ","B","a","n","k","\n">>, <<"a","x","i","s"," ","b","a","n","k","\n">>, <<"C","h","a","s","e"," "," ","B","a","n","k","\n">>, <<"I","D","F","C","\n","B","a","n","k","\n">>>>
\* The second signature of CHASE and of IDFC.
AlternativeSignatureLines == <<<<"J","P","M","o","r","g","a","n"," ","C","h","a","s","e","\n">>, <<"I","D","F","C"," ","F","i","r","s","t"," ","B","a","n","k","\n">>>>
\* Lines with no signature.
PlainLines == <<<<"H","D","F","C","B","A","N","K","\n">>, <<"C","r","e","d","i","t"," ","C","a","r","d"," ","S","t","a","t","e","m","e","n","t","\n">>, <<"C","h","a","s","e","\n">>>>

\* The header lines an issuer's own statements start with.
OwnHeader(f) == SignatureLines[f]

\* The field lines of each issuer's layout: 1 HDFC, 2 ICICI, 3 AXIS, 4 CHASE, 5 IDFC.
FieldLines ==
    << <<<<"C","a","r","d"," ","N","o",":"," ","4","3","4","1"," ","5","5","X","X"," ","X","X","X","X"," ","3","3","8","8","\n">>,
         <<"S","t","a","t","e","m","e","n","t"," ","D","a","t","e",":","2","3","/","1","0","/","2","0","2","4","\n">>,
         <<"S","t","a","t","e","m","e","n","t"," ","f","o","r"," ","1","0","/","2","0","2","4","\n">>,
         <<"P","a","y","m","e","n","t"," ","D","u","e"," ","D","a","t","e"," ","T","o","t","a","l"," ","D","u","e","s"," ","M","i","n","i","m","u","m"," ","A","m","o","u","n","t"," ","D","u","e","\n","1","2","/","1","1","/","2","0","2","4"," ","8","3",",","7","9","4",".","0","0"," ","4",",","2","4","0",".","0","0","\n">>,
         <<"T","o","t","a","l"," ","D","u","e","s"," ","1",",","5","0","0",".","0","0","\n">>>>,
       <<<<"C","a","r","d"," ","N","u","m","b","e","r",":"," ","X","X","X","X"," ","X","X","X","X"," ","X","X","X","X"," ","1","2","3","4","\n">>,
         <<"S","t","a","t","e","m","e","n","t"," ","P","e","r","i","o","d",":"," ","0","1","-","N","o","v","-","2","0","2","5"," ","t","o"," ","3","0","-","N","o","v","-","2","0","2","5","\n">>,
         <<"D","u","e"," ","D","a","t","e",":"," ","1","5","-","D","e","c","-","2","0","2","5","\n">>,
         <<"T","o","t","a","l"," ","A","m","o","u","n","t"," ","D","u","e",":"," ","R","s","."," ","1","2",",","4","5","0",".","0","0","\n">>>>,
       <<<<"C","r","e","d","i","t"," ","C","a","r","d"," ","N","u","m","b","e","r"," ","5","3","3","4","6","7","0","0","*","*","*","*","1","0","6","0","\n">>,
         <<"S","t","a","t","e","m","e","n","t"," ","P","e","r","i","o","d"," ","P","a","y","m","e","n","t"," ","D","u","e"," ","D","a","t","e","\n","1","6","/","0","4","/","2","0","2","1"," ","-"," ","1","5","/","0","5","/","2","0","2","1"," ","0","4","/","0","6","/","2","0","2","1","\n">>,
         <<"T","o","t","a","l"," ","P","a","y","m","e","n","t"," ","D","u","e"," ","M","i","n","i","m","u","m"," ","P","a","y","m","e","n","t"," ","D","u","e","\n","1",",","2","8","9",".","0","0"," ","D","r"," ","1","0","0",".","0","0"," ","D","r","\n">>>>,
       <<<<"A","c","c","o","u","n","t"," ","N","u","m","b","e","r",":"," ","*","*","*","*","*","*","*","*","*","*","*","*","1","2","3","4","\n">>,
         <<"O","p","e","n","i","n","g","/","C","l","o","s","i","n","g"," ","D","a","t","e"," ","1","1","/","0","1","/","2","4"," ","-"," ","1","1","/","3","0","/","2","4","\n">>,
         <<"P","a","y","m","e","n","t"," ","D","u","e"," ","D","a","t","e"," ","1","2","/","2","5","/","2","4","\n">>,
         <<"N","e","w"," ","B","a","l","a","n","c","e"," ","$","1",",","2","3","4",".","5","6","\n">>>>,
       <<<<"C","a","r","d"," ","N","u","m","b","e","r"," ","X","X","X","X"," ","X","X","X","X"," ","X","X","X","X"," ","1","2","3","4","\n">>,
         <<"S","t","a","t","e","m","e","n","t"," ","P","e","r","i","o","d"," ","0","1","/","1","1","/","2","0","2","4"," ","-"," ","3","0","/","1","1","/","2","0","2","4","\n">>,
         <<"P","a","y","m","e","n","t"," ","D","u","e"," ","D","a","t","e"," ","1","2","/","1","2","/","2","0","2","4","\n">>,
         <<"T","o","t","a","l"," ","A","m","o","u","n","t"," ","D","u","e"," ","U+20B9"," ","1","2",",","3","4","5",".","6","7","\n">>>> >>

\* Transaction lines in the three date formats; amounts with and without
\* a sign, with and without a Cr or Dr marker, one with a blank description.
TxLinesDMY ==
    <<<<"2","3","/","1","0","/","2","0","2","4"," ","S","O","M","E"," ","M","E","R","C","H","A","N","T"," ","1",",","2","3","4",".","5","6"," ","C","r","\n">>,
      <<"2","4","/","1","0","/","2","0","2","4"," ","F","U","E","L"," ","5","0","0",".","0","0"," ","D","r","\n">>,
      <<"2","5","/","1","0","/","2","0","2","4"," ","R","E","F","U","N","D"," ","-","7","5",".","0","0"," ","c","r","\n">>,
      <<"2","6","/","1","0","/","2","0","2","4"," ","S","H","O","P"," ","9",".","0","0","\n">>,
      <<"2","7","/","1","0","/","2","0","2","4"," "," "," ","4","2",".","0","0","\n">>>>
TxLinesDMonY ==
    <<<<"0","1","-","N","o","v","-","2","0","2","5"," ","A","M","A","Z","O","N"," ","P","U","R","C","H","A","S","E"," ","1",",","2","3","4",".","5","6","\n">>,
      <<"0","2","-","N","o","v","-","2","0","2","5"," ","P","A","Y","M","E","N","T"," ","-","5","0","0",".","0","0"," ","C","r","\n">>,
      <<"0","3","/","N","o","v","/","2","0","2","5"," ","F","E","E"," ","1",".","0","0"," ","D","r","\n">>>>
TxLinesMD ==
    <<<<"1","1","/","0","5"," ","P","U","R","C","H","A","S","E"," ","S","O","M","E"," ","M","E","R","C","H","A","N","T"," ","1","2","3",".","4","5","\n">>,
      <<"1","1","/","0","6"," ","R","E","F","U","N","D"," ","-","2","0",".","0","0","\n">>,
      <<"1","1","/","0","7"," ","P","A","Y","M","E","N","T"," ","5",".","0","0"," ","C","r","\n">>>>
TxLines == <<TxLinesDMY, TxLinesDMonY, TxLinesDMY, TxLinesMD, TxLinesDMY>>

Layouts == 1..5

\* The text of the spec's HDFC example.
HdfcExample ==
    <<"H","D","F","C"," ","B","A","N","K","\n","C","a","r","d"," ","N","o",":"," ","4","3","4","1"," ","5","5","X","X"," ","X","X","X","X"," ","3","3","8","8","\n","S","t","a","t","e","m","e","n","t"," ","D","a","t","e",":","2","3","/","1","0","/","2","0","2","4","\n","P","a","y","m","e","n","t"," ","D","u","e"," ","D","a","t","e"," ","T","o","t","a","l"," ","D","u","e","s"," ","M","i","n","i","m","u","m"," ","A","m","o","u","n","t"," ","D","u","e","\n","1","2","/","1","1","/","2","0","2","4"," ","8","3",",","7","9","4",".","0","0"," ","4",",","2","4","0",".","0","0","\n","2","3","/","1","0","/","2","0","2","4"," ","S","O","M","E"," ","M","E","R","C","H","A","N","T"," ","1",",","2","3","4",".","5","6"," ","C","r">>

\* Every combination of signature lines, in priority order and in reverse.
DetectDocs ==
    {Join(Pick(SignatureLines, S, 1)) : S \in SUBSET (1..5)}
    \cup {Join(Reverse(Pick(SignatureLines, S, 1))) : S \in SUBSET (1..5)}
    \cup {Join(Pick(AlternativeSignatureLines \o PlainLines, S, 1)) : S \in SUBSET (1..5)}

\* An issuer's statement with any of its field lines missing.
FieldDocs ==
    UNION {{OwnHeader(f) \o Join(Pick(FieldLines[f], S, 1)) \o Join(Pick(TxLines[f], T, 1)) :
               S \in SUBSET (1..Len(FieldLines[f])), T \in {{}, {1}}} : f \in Layouts}

\* An issuer's statement with up to MaxTx transaction lines, in any order and
\* repeated, and none of its field lines; or with all of its field lines and
\* at most one transaction line.
TxDocs ==
    UNION {{OwnHeader(f) \o Join([k \in 1..Len(q) |-> TxLines[f][q[k]]]) : q \in UpTo(Len(TxLines[f]), MaxTx)}
           \cup {OwnHeader(f) \o Join(FieldLines[f]) \o Join([k \in 1..Len(q) |-> TxLines[f][q[k]]]) :
                     q \in UpTo(Len(TxLines[f]), 1)} : f \in Layouts}

\* One issuer's header over another issuer's layout.
CrossDocs ==
    {OwnHeader(h) \o Join(FieldLines[f]) \o TxLines[f][1] : h \in Layouts, f \in Layouts}

\* A due-date line per layout whose data holds the billing-period dates
\* before the due date.
PeriodFirstLines ==
    <<<<"P","a","y","m","e","n","t"," ","D","u","e"," ","D","a","t","e"," ","T","o","t","a","l"," ","D","u","e","s"," ","M","i","n","i","m","u","m"," ","A","m","o","u","n","t"," ","D","u","e","\n","1","6","/","0","4","/","2","0","2","1"," ","-"," ","1","5","/","0","5","/","2","0","2","1"," ","0","4","/","0","6","/","2","0","2","1"," ","8","3",",","7","9","4",".","0","0"," ","4",",","2","4","0",".","0","0","\n">>,
      <<"D","u","e"," ","D","a","t","e",":"," ","0","1","-","N","o","v","-","2","0","2","5"," ","t","o"," ","3","0","-","N","o","v","-","2","0","2","5"," ","1","5","-","D","e","c","-","2","0","2","5","\n">>,
      <<"P","a","y","m","e","n","t"," ","D","u","e"," ","D","a","t","e","\n","1","6","/","0","4","/","2","0","2","1"," ","-"," ","1","5","/","0","5","/","2","0","2","1"," ","0","4","/","0","6","/","2","0","2","1","\n">>,
      <<"P","a","y","m","e","n","t"," ","D","u","e"," ","D","a","t","e"," ","1","1","/","0","1","/","2","4"," ","-"," ","1","1","/","3","0","/","2","4"," ","1","2","/","2","5","/","2","4","\n">>,
      <<"P","a","y","m","e","n","t"," ","D","u","e"," ","D","a","t","e"," ","0","1","/","1","1","/","2","0","2","4"," ","-"," ","3","0","/","1","1","/","2","0","2","4"," ","1","2","/","1","2","/","2","0","2","4","\n">>>>

\* An issuer's statement with such a line, alone or before its field lines.
PeriodFirstDocs ==
    {OwnHeader(f) \o PeriodFirstLines[f] : f \in Layouts}
    \cup {OwnHeader(f) \o PeriodFirstLines[f] \o Join(FieldLines[f]) : f \in Layouts}

Docs == {HdfcExample} \cup DetectDocs \cup FieldDocs \cup TxDocs \cup CrossDocs \cup PeriodFirstDocs

\* The files main.py can be given: missing, unreadable, without text, a statement.
Files ==
    {[exists |-> FALSE, readable |-> FALSE, text |-> <<>>],
     [exists |-> TRUE, readable |-> FALSE, text |-> <<>>],
     [exists |-> TRUE, readable |-> TRUE, text |-> <<>>],
     [exists |-> TRUE, readable |-> TRUE, text |-> <<" ","\n">>]}
    \cup {[exists |-> TRUE, readable |-> TRUE, text |-> d] : d \in Docs \ {<<>>}}

-----------------------------------------------------------------------------
(* The state *)

\* A str-valued local before it is assigned.
Unset == <<"unset">>

\* The dict each parser starts from (hdfc.py 20-27 and its four siblings).
NewResult(tag) ==
    [issuer |-> tag, card_last_4_digits |-> None, billing_period |-> None,
     payment_due_date |-> None, total_amount_due |-> None, transactions |-> <<>>]

NoResult == NewResult("unset")
NotReturned == [returned |-> FALSE]
NoResponse == [kind |-> "none"]
NoFile == [exists |-> FALSE, readable |-> FALSE, text |-> <<>>]
NoRequest == [method |-> "none", has_file |-> FALSE, filename |-> <<>>, upload |-> NoFile]
NoTmp == [file |-> "none", tmp_path |-> FALSE]

Exception(type, msg) == [type |-> type, msg |-> msg]

Locals == <<text, issuer, parser, result, warned, raised, returned>>
Harness == <<arg, once, twice>>

FreshLocals ==
    /\ text = None
    /\ issuer = "unset"
    /\ parser = "none"
    /\ result = NoResult
    /\ warned = {}
    /\ raised = NoException
    /\ returned = NotReturned

-----------------------------------------------------------------------------
(* main.py: parse_statement *)

\* A dispatch table that lacks the entry of one tag.
parsersWithoutIdfc ==
    [HDFC |-> "parse_hdfc", ICICI |-> "parse_icici", AXIS |-> "parse_axis", CHASE |-> "parse_chase"]

\* The dispatch table of parse_statement.
parsers ==
    [HDFC |-> "parse_hdfc", ICICI |-> "parse_icici", AXIS |-> "parse_axis",
     CHASE |-> "parse_chase", IDFC |-> "parse_idfc"]

\* raise: the exception leaves parse_statement.
Raise(e) ==
    /\ raised' = e
    /\ pc' = "raised"

\* if not Path(pdf_path).exists(): raise FileNotFoundError
CheckFile ==
    /\ pc = "parse_statement"
    /\ IF pdf.exists
       THEN pc' = "extract" /\ UNCHANGED raised
       ELSE Raise(Exception("FileNotFoundError", <<"PDF file not found: ", "pdf_path">>))
    /\ UNCHANGED <<entry, request, pdf, tmp, text, issuer, parser, result, warned, returned, response>>
    /\ UNCHANGED Harness

\* text = extract_text_from_pdf(pdf_path); if not text.strip(): raise ValueError
ExtractText ==
    /\ pc = "extract"
    /\ IF ~pdf.readable
       THEN Raise(Exception("PDFSyntaxError", <<"extract_text_from_pdf">>)) /\ UNCHANGED text
       ELSE /\ text' = pdf.text
            /\ IF ~Truthy(Strip(pdf.text))
               THEN Raise(Exception("ValueError", <<"PDF appears to be empty or contains no extractable text">>))
               ELSE pc' = "detect" /\ UNCHANGED raised
    /\ UNCHANGED <<entry, request, pdf, tmp, issuer, parser, result, warned, returned, response>>
    /\ UNCHANGED Harness

\* issuer = detect_issuer(text)
DetectIssuer ==
    /\ pc = "detect"
    /\ LET r == detect_issuer(text)
       IN IF r.raised = NoException
          THEN issuer' = r.value /\ pc' = "dispatch" /\ UNCHANGED raised
          ELSE Raise(r.raised) /\ UNCHANGED issuer
    /\ UNCHANGED <<entry, request, pdf, tmp, text, parser, result, warned, returned, response>>
    /\ UNCHANGED Harness

\* parser_func = parsers.get(issuer); if not parser_func: raise ...;
\* result = parser_func(text): the call, up to the parser's new result dict.
Dispatch ==
    /\ pc = "dispatch"
    /\ IF issuer \in DOMAIN parsers
       THEN /\ parser' = parsers[issuer]
            /\ result' = NewResult(ParserIssuer(parsers[issuer]))
            /\ pc' = "card"
            /\ UNCHANGED raised
       ELSE /\ Raise(Exception("UnsupportedIssuerError", <<"No parser available for issuer: ", issuer>>))
            /\ UNCHANGED <<parser, result>>
    /\ UNCHANGED <<entry, request, pdf, tmp, text, issuer, warned, returned, response>>
    /\ UNCHANGED Harness

\* An extraction step that lets a miss escape as an exception (a parser
\* indexing the match without the "if value" test).
ExtractOrRaise(at, key, value, next) ==
    /\ pc = at
    /\ IF value = None
       THEN Raise(Exception("AttributeError", <<"'NoneType' object has no attribute 'group'">>)) /\ UNCHANGED result
       ELSE result' = [result EXCEPT ![key] = value] /\ pc' = next /\ UNCHANGED raised
    /\ UNCHANGED <<entry, request, pdf, tmp, text, issuer, parser, warned, returned, response>>
    /\ UNCHANGED Harness

\* One extraction step of the running parser: the key is assigned when the
\* value is found, and a warning is logged when it is not.
Extract(at, key, value, next) ==
    /\ pc = at
    /\ result' = [result EXCEPT ![key] = value]
    /\ warned' = IF value = None THEN warned \cup {key} ELSE warned
    /\ pc' = next
    /\ UNCHANGED <<entry, request, pdf, tmp, text, issuer, parser, raised, returned, response>>
    /\ UNCHANGED Harness

ExtractCard == Extract("card", "card_last_4_digits", CardOf(parser, text), "billing")
ExtractBilling == Extract("billing", "billing_period", BillingOf(parser, text), "due")
ExtractDue == Extract("due", "payment_due_date", DueOf(parser, text), "total")
ExtractTotal == Extract("total", "total_amount_due", TotalOf(parser, text), "transactions")

\* The finditer loop: every match appended; no warning when there is none.
ExtractTransactions ==
    /\ pc = "transactions"
    /\ result' = [result EXCEPT !.transactions = TransactionsOf(parser, text)]
    /\ pc' = "return"
    /\ UNCHANGED <<entry, request, pdf, tmp, text, issuer, parser, warned, raised, returned, response>>
    /\ UNCHANGED Harness

\* return result (the parser's, then parse_statement's).
Return ==
    /\ pc = "return"
    /\ returned' = [returned |-> TRUE, value |-> result]
    /\ pc' = "returned"
    /\ UNCHANGED <<entry, request, pdf, tmp, text, issuer, parser, result, warned, raised, response>>
    /\ UNCHANGED Harness

ParseStatement ==
    \/ CheckFile
    \/ ExtractText
    \/ DetectIssuer
    \/ Dispatch
    \/ ExtractCard
    \/ ExtractBilling
    \/ ExtractDue
    \/ ExtractTotal
    \/ ExtractTransactions
    \/ Return

-----------------------------------------------------------------------------
(* main.py: main *)

\* if len(sys.argv) < 2: usage, sys.exit(1); else parse_statement(sys.argv[1])
MainStart ==
    /\ pc = "main"
    /\ IF request.has_file
       THEN pc' = "parse_statement" /\ UNCHANGED response
       ELSE pc' = "done" /\ response' = [kind |-> "exit", status |-> 1, printed |-> <<"Usage: python main.py <path_to_pdf>">>]
    /\ UNCHANGED <<entry, request, pdf, tmp>>
    /\ UNCHANGED Locals
    /\ UNCHANGED Harness

\* The result printed as JSON, or the error printed and sys.exit(1).
MainExit ==
    /\ entry = "main"
    /\ pc \in {"returned", "raised"}
    /\ response' = IF pc = "returned"
                   THEN [kind |-> "exit", status |-> 0, printed |-> returned.value]
                   ELSE [kind |-> "exit", status |-> 1, printed |-> raised.msg]
    /\ pc' = "done"
    /\ UNCHANGED <<entry, request, pdf, tmp>>
    /\ UNCHANGED Locals
    /\ UNCHANGED Harness

-----------------------------------------------------------------------------
(* api/parse.py: parse_handler, and backend/app.py: api_parse *)

Handlers == {"parse_handler", "api_parse"}

\* The last position of character c in s, 0 when there is none.
LastIndex(s, c) == IF \E i \in 1..Len(s) : s[i] = c THEN Most({i \in 1..Len(s) : s[i] = c}) ELSE 0

Lower(s) == [i \in 1..Len(s) |-> ToLower(s[i])]

\* allowed_file(filename) of api/parse.py
allowed_file(filename) ==
    /\ \E i \in 1..Len(filename) : filename[i] = "."
    /\ Lower(SubSeq(filename, LastIndex(filename, ".") + 1, Len(filename))) \in {<<"p","d","f">>}

\* file.filename.lower().endswith('.pdf') of backend/app.py
EndsWithPdf(filename) ==
    /\ Len(filename) >= 4
    /\ SubSeq(Lower(filename), Len(filename) - 3, Len(filename)) = <<".","p","d","f">>

\* jsonify({"success": False, "error": error}), status
Failure(status, error) == [kind |-> "json", status |-> status, success |-> FALSE, error |-> error]
\* jsonify({"success": True, "file": ..., "data": parsed}): status 200
Success(parsed) == [kind |-> "json", status |-> 200, success |-> TRUE, data |-> parsed]

\* The checks before the try block: the response of a request refused, or
\* NoResponse for a request let through.
Validate(h, r) ==
    IF r.method = "OPTIONS" THEN [kind |-> "empty", status |-> 200]
    ELSE IF ~r.has_file
    THEN Failure(400, IF h = "parse_handler" THEN <<"No file part in the request.">> ELSE <<"No file provided">>)
    ELSE IF r.filename = <<>>
    THEN Failure(400, IF h = "parse_handler" THEN <<"No file selected.">> ELSE <<"No file selected">>)
    ELSE IF h = "parse_handler" /\ ~allowed_file(r.filename)
    THEN Failure(400, <<"Unsupported file type. Please upload a PDF.">>)
    ELSE IF h = "api_parse" /\ ~EndsWithPdf(r.filename)
    THEN Failure(400, <<"Only PDF files are supported">>)
    ELSE NoResponse

\* The file names a request can carry.
Filenames == {<<>>, <<"a",".","p","d","f">>, <<"A",".","P","D","F">>, <<".","p","d","f">>, <<"p","d","f">>, <<"a",".","t","x","t">>, <<"a",".","p","d","f",".","t","x","t">>}

\* The uploads: unreadable, without text, with no signature, and one
\* statement per issuer.
Uploads ==
    {[exists |-> TRUE, readable |-> FALSE, text |-> <<>>],
     [exists |-> TRUE, readable |-> TRUE, text |-> <<>>]}
    \cup {[exists |-> TRUE, readable |-> TRUE, text |-> d] :
             d \in {HdfcExample, PlainLines[2]}
                   \cup {OwnHeader(f) \o Join(FieldLines[f]) \o TxLines[f][1] : f \in Layouts}}

Requests ==
    {[method |-> "OPTIONS", has_file |-> FALSE, filename |-> <<>>, upload |-> NoFile],
     [method |-> "POST", has_file |-> FALSE, filename |-> <<>>, upload |-> NoFile]}
    \cup {[method |-> "POST", has_file |-> TRUE, filename |-> n, upload |-> u] : n \in Filenames, u \in Uploads}

\* A request arrives and passes, or fails, the checks before the try block.
Receive ==
    /\ pc = "idle"
    /\ \E h \in Handlers, r \in Requests :
          /\ entry' = h
          /\ request' = r
          /\ response' = Validate(h, r)
          /\ pc' = IF Validate(h, r) = NoResponse THEN "save" ELSE "done"
    /\ UNCHANGED <<pdf, tmp>>
    /\ UNCHANGED Locals
    /\ UNCHANGED Harness

\* with tempfile.NamedTemporaryFile(delete=False, suffix=".pdf") as tmp:
\*     file.save(tmp.name); tmp_path = tmp.name
\* file.save may raise; the file is created either way, tmp_path is set only
\* after the save.
SaveUpload ==
    /\ pc = "save"
    /\ \E saved \in BOOLEAN :
          IF saved
          THEN /\ tmp' = [file |-> "exists", tmp_path |-> TRUE]
               /\ pdf' = request.upload
               /\ pc' = "parse_statement"
               /\ UNCHANGED raised
          ELSE /\ tmp' = [file |-> "exists", tmp_path |-> FALSE]
               /\ Raise(Exception("OSError", <<"file.save">>))
               /\ UNCHANGED pdf
    /\ UNCHANGED <<entry, request, text, issuer, parser, result, warned, returned, response>>
    /\ UNCHANGED Harness

\* A try block without the "except UnsupportedIssuerError" clause.
HandlerResponseOneClause(h) ==
    IF raised = NoException THEN Success(returned.value)
    ELSE Failure(500, <<IF h = "parse_handler" THEN "Failed to parse statement: " ELSE "Failed to parse: ">> \o raised.msg)

\* The response of the try block: the return, or the except clause taken.
HandlerResponse(h) ==
    IF raised = NoException THEN Success(returned.value)
    ELSE IF raised.type = "UnsupportedIssuerError" THEN Failure(400, raised.msg)
    ELSE Failure(500, <<IF h = "parse_handler" THEN "Failed to parse statement: " ELSE "Failed to parse: ">> \o raised.msg)

\* finally: if tmp_path and os.path.exists(tmp_path): os.remove(tmp_path)
Finally(t) == IF t.tmp_path /\ t.file = "exists" THEN [t EXCEPT !.file = "removed"] ELSE t

\* The handler returns: its response, and the finally clause.
Respond ==
    /\ entry \in Handlers
    /\ pc \in {"returned", "raised"}
    /\ response' = HandlerResponse(entry)
    /\ tmp' = Finally(tmp)
    /\ pc' = "done"
    /\ UNCHANGED <<entry, request, pdf>>
    /\ UNCHANGED Locals
    /\ UNCHANGED Harness

\* The server takes the next request: the handler's locals are new.
NextRequest ==
    /\ entry \in Handlers
    /\ pc = "done"
    /\ pc' = "idle"
    /\ entry' = "none"
    /\ request' = NoRequest
    /\ pdf' = NoFile
    /\ tmp' = NoTmp
    /\ response' = NoResponse
    /\ text' = None
    /\ issuer' = "unset"
    /\ parser' = "none"
    /\ result' = NoResult
    /\ warned' = {}
    /\ raised' = NoException
    /\ returned' = NotReturned
    /\ UNCHANGED Harness

-----------------------------------------------------------------------------
(* The normalizers on their own: f(arg), then f(f(arg)) *)

\* The longest str the normalizers are given.
MaxLen == 3

NormalizerChars == {" ", "\n", "1", ","}

RECURSIVE Strings(_)
Strings(len) ==
    IF len = 0 THEN {<<>>}
    ELSE Strings(len - 1) \cup {Append(q, c) : q \in {r \in Strings(len - 1) : Len(r) = len - 1}, c \in NormalizerChars}

NormalizerInputs == {None} \cup Strings(MaxLen)

Normalize(f, s) == IF f = "clean_amount" THEN clean_amount(s) ELSE normalize_date(s)

ApplyOnce ==
    /\ pc = "apply"
    /\ once' = Normalize(entry, arg)
    /\ pc' = "again"
    /\ UNCHANGED <<entry, request, pdf, tmp, response, arg, twice>>
    /\ UNCHANGED Locals

ApplyTwice ==
    /\ pc = "again"
    /\ twice' = Normalize(entry, once)
    /\ pc' = "done"
    /\ UNCHANGED <<entry, request, pdf, tmp, response, arg, once>>
    /\ UNCHANGED Locals

-----------------------------------------------------------------------------
(* The specifications *)

\* The command line: python main.py <path_to_pdf>
Init ==
    /\ pc = "main"
    /\ entry = "main"
    /\ \/ request = [NoRequest EXCEPT !.method = "argv"] /\ pdf = NoFile
       \/ request = [NoRequest EXCEPT !.method = "argv", !.has_file = TRUE] /\ pdf \in Files
    /\ tmp = NoTmp
    /\ response = NoResponse
    /\ FreshLocals
    /\ arg = None /\ once = Unset /\ twice = Unset

Next == MainStart \/ ParseStatement \/ MainExit

Spec == Init /\ [][Next]_vars

\* The HTTP server, either handler.
InitHttp ==
    /\ pc = "idle"
    /\ entry = "none"
    /\ request = NoRequest
    /\ pdf = NoFile
    /\ tmp = NoTmp
    /\ response = NoResponse
    /\ FreshLocals
    /\ arg = None /\ once = Unset /\ twice = Unset

NextHttp == Receive \/ SaveUpload \/ ParseStatement \/ Respond \/ NextRequest

SpecHttp == InitHttp /\ [][NextHttp]_vars

\* The normalizers.
InitNormalizers ==
    /\ pc = "apply"
    /\ entry \in {"clean_amount", "normalize_date"}
    /\ arg \in NormalizerInputs
    /\ once = Unset /\ twice = Unset
    /\ request = NoRequest
    /\ pdf = NoFile
    /\ tmp = NoTmp
    /\ response = NoResponse
    /\ FreshLocals

NextNormalizers == ApplyOnce \/ ApplyTwice

SpecNormalizers == InitNormalizers /\ [][NextNormalizers]_vars

-----------------------------------------------------------------------------
(* What the specification says, stated on its own terms *)

\* s holds the word w at position i.
WordAt(s, w, i) == i + Len(w) - 1 <= Len(s) /\ SubSeq(s, i, i + Len(w) - 1) = w

\* The positions a run of one or more whitespace characters from i on ends before.
AfterSpace(s, i) == {j \in (i + 1)..(Len(s) + 1) : \A q \in i..(j - 1) : s[q] \in Whitespace}

\* s holds the words, in order, with whitespace between them, from position i.
RECURSIVE PhraseAt(_, _, _)
PhraseAt(s, words, i) ==
    /\ WordAt(s, Head(words), i)
    /\ Len(words) = 1 \/ \E j \in AfterSpace(s, i + Len(Head(words))) : PhraseAt(s, Tail(words), j)

Contains(s, words) == \E i \in 1..Len(s) : PhraseAt(s, words, i)

\* The issuers whose bank-name signature the case-folded text t holds.
Present(t) ==
    [HDFC |-> Contains(Lower(t), <<<<"h","d","f","c">>, <<"b","a","n","k">>>>),
     ICICI |-> Contains(Lower(t), <<<<"i","c","i","c","i">>, <<"b","a","n","k">>>>),
     AXIS |-> Contains(Lower(t), <<<<"a","x","i","s">>, <<"b","a","n","k">>>>),
     CHASE |-> Contains(Lower(t), <<<<"c","h","a","s","e">>, <<"b","a","n","k">>>>) \/ Contains(Lower(t), <<<<"j","p","m","o","r","g","a","n">>, <<"c","h","a","s","e">>>>),
     IDFC |-> Contains(Lower(t), <<<<"i","d","f","c">>, <<"f","i","r","s","t">>, <<"b","a","n","k">>>>) \/ Contains(Lower(t), <<<<"i","d","f","c">>, <<"b","a","n","k">>>>)]

\* The fixed order of the signatures.
Priority == <<"HDFC", "ICICI", "AXIS", "CHASE", "IDFC">>

AnyPresent(p) == \E k \in 1..Len(Priority) : p[Priority[k]]
Highest(p) == Priority[Least({k \in 1..Len(Priority) : p[Priority[k]]})]

\* detect_issuer has been called on text and has returned or raised.
Detection == text # None /\ pc # "detect" /\ raised.type # "ValueError"

\* The names the error message is to carry.
SupportedIssuerNames == {"HDFC Bank", "ICICI Bank", "Axis Bank", "Chase", "IDFC First Bank"}

\* The four optional fields of a Statement.
OptionalFields == {"card_last_4_digits", "billing_period", "payment_due_date", "total_amount_due"}

\* A non-empty str with no whitespace at either end.
Trimmed(s) == Len(s) > 0 /\ s[1] \notin Whitespace /\ s[Len(s)] \notin Whitespace

\* The patterns behind each field of each grammar, and its transaction pattern.
FieldPatterns(p) ==
    CASE p = "parse_hdfc" ->
             [card_last_4_digits |-> <<HdfcCardPattern>>, billing_period |-> <<HdfcDatePattern, HdfcMonthPattern>>,
              payment_due_date |-> <<HdfcDuePattern>>, total_amount_due |-> <<HdfcTotalPattern, HdfcTotalAltPattern>>]
      [] p = "parse_icici" ->
             [card_last_4_digits |-> <<IciciCardPattern>>, billing_period |-> <<IciciPeriodPattern>>,
              payment_due_date |-> <<IciciDuePattern>>, total_amount_due |-> <<IciciTotalPattern>>]
      [] p = "parse_axis" ->
             [card_last_4_digits |-> <<AxisCardPattern>>, billing_period |-> <<AxisPeriodPattern>>,
              payment_due_date |-> <<AxisDuePattern>>, total_amount_due |-> <<AxisTotalPattern>>]
      [] p = "parse_chase" ->
             [card_last_4_digits |-> <<ChaseCardPattern>>, billing_period |-> <<ChasePeriodPattern>>,
              payment_due_date |-> <<ChaseDuePattern>>, total_amount_due |-> <<ChaseTotalPattern>>]
      [] p = "parse_idfc" ->
             [card_last_4_digits |-> <<IdfcCardPattern>>, billing_period |-> <<IdfcPeriodPattern>>,
              payment_due_date |-> <<IdfcDuePattern>>, total_amount_due |-> <<IdfcTotalPattern>>]
TxPatternOf(p) ==
    CASE p = "parse_hdfc" -> HdfcTxPattern [] p = "parse_icici" -> IciciTxPattern [] p = "parse_axis" -> AxisTxPattern
      [] p = "parse_chase" -> ChaseTxPattern [] p = "parse_idfc" -> IdfcTxPattern

\* Some pattern of the list has a match in t.
SomeMatch(t, patterns) == \E k \in 1..Len(patterns) : Search(t, patterns[k]).ok

\* The trimmed capture of the first pattern of the list that has a match in t.
RECURSIVE Captured(_, _)
Captured(t, patterns) ==
    IF Len(patterns) = 0 THEN None
    ELSE CHOOSE c \in {IF m.ok THEN Strip(Group(t, m, 1)) ELSE Captured(t, Tail(patterns)) :
                          m \in {Search(t, Head(patterns))}} : TRUE

\* The negation of an amount.
Negation(amount) == IF Len(amount) > 0 /\ Head(amount) = "-" THEN Tail(amount) ELSE <<"-">> \o amount

\* The parsers whose transaction pattern has a Cr/Dr marker.
MarkedParsers == {"parse_hdfc", "parse_axis"}

\* The amount the sign convention gives transaction match m of parser p.
ConventionAmount(p, t, m) ==
    IF p \in MarkedParsers /\ Group(t, m, 4) # None /\ Lower(Group(t, m, 4)) = <<"c","r">>
    THEN Negation(Strip(Group(t, m, 3)))
    ELSE Strip(Group(t, m, 3))

\* A request that fails the missing-file, empty-filename or file-type validation.
FailsValidation(r) ==
    \/ ~r.has_file
    \/ r.filename = <<>>
    \/ Len(r.filename) < 4
    \/ Lower(SubSeq(r.filename, Len(r.filename) - 3, Len(r.filename))) # <<".","p","d","f">>

-----------------------------------------------------------------------------
(* The claims *)

\* C1: detect_issuer returns the tag of the highest-priority signature present
\* in the case-folded text, under the order HDFC > ICICI > AXIS > CHASE > IDFC:
\* a text with exactly one issuer's signature classifies to that issuer, and a
\* text with all five classifies to HDFC.
C1_HighestPrioritySignature ==
    Detection =>
        \A p \in {Present(text)} :
            AnyPresent(p) =>
                /\ raised = NoException
                /\ issuer = Highest(p)
                /\ \A tag \in IssuerTags : (\A other \in IssuerTags : p[other] <=> other = tag) => issuer = tag
                /\ (\A tag \in IssuerTags : p[tag]) => issuer = "HDFC"

\* C1: a text with all five signatures has been classified (to HDFC).
C1_AllFivePresent ==
    /\ Detection
    /\ issuer = "HDFC"
    /\ \A p \in {Present(text)} : \A tag \in IssuerTags : p[tag]

\* C2: for a text with none of the five signatures, detection followed by
\* dispatch fails with UnsupportedIssuerError, the message names all five
\* supported issuers, no parser is run, and no Statement is returned.
C2_NoSignatureNoStatement ==
    Detection /\ (\A p \in {Present(text)} : ~AnyPresent(p)) =>
        /\ raised.type = "UnsupportedIssuerError"
        /\ \A name \in SupportedIssuerNames : \E k \in 1..Len(raised.msg) : raised.msg[k] = name
        /\ issuer = "unset"
        /\ parser = "none"
        /\ result = NoResult
        /\ warned = {}
        /\ returned = NotReturned
        /\ pc \in {"raised", "done"}
        /\ pc = "done" => response.status = 1 /\ response.printed = raised.msg

\* C2: a text with content and no signature has been through detection.
C2_UnsupportedRaised ==
    /\ pc = "done"
    /\ raised.type = "UnsupportedIssuerError"
    /\ Truthy(Strip(text))
    /\ \A p \in {Present(text)} : ~AnyPresent(p)

\* C3: for every grammar and text, each of card_last_4_digits, billing_period,
\* payment_due_date and total_amount_due is null or a non-empty string with no
\* leading or trailing whitespace, in the result under construction and in the
\* Statement returned.
C3_OptionalFieldsNullOrTrimmed ==
    /\ \A key \in OptionalFields : result[key] = None \/ Trimmed(result[key])
    /\ returned.returned =>
          \A key \in OptionalFields : returned.value[key] = None \/ Trimmed(returned.value[key])

\* C3: a Statement returned with one field null and another extracted.
C3_SomeNullSomeFound ==
    /\ returned.returned
    /\ returned.value.billing_period = None
    /\ returned.value.payment_due_date # None
    /\ Trimmed(returned.value.payment_due_date)

\* C4: clean_amount and normalize_date are idempotent on every input, and
\* return null on null and on the empty string.
C4_NormalizersIdempotent ==
    pc = "done" =>
        /\ twice = once
        /\ arg \in {None, <<>>} => once = None

\* C4: a normalizer applied twice to a str of whitespace only.
C4_WhitespaceOnly ==
    /\ pc = "done"
    /\ arg # None
    /\ Len(arg) > 0
    /\ \A i \in 1..Len(arg) : arg[i] \in Whitespace

\* C5: for the HDFC example text the Statement has issuer HDFC,
\* card_last_4_digits "3388", billing_period "23/10/2024", payment_due_date
\* "12/11/2024" and total_amount_due the rupee sign followed by "83,794.00".
C5_HdfcExampleFields ==
    text = HdfcExample /\ returned.returned =>
        /\ returned.value.issuer = "HDFC"
        /\ returned.value.card_last_4_digits = <<"3","3","8","8">>
        /\ returned.value.billing_period = <<"2","3","/","1","0","/","2","0","2","4">>
        /\ returned.value.payment_due_date = <<"1","2","/","1","1","/","2","0","2","4">>
        /\ returned.value.total_amount_due = Rupee \o <<"8","3",",","7","9","4",".","0","0">>

\* C5: the HDFC example text has been parsed by parse_hdfc.
C5_HdfcExampleParsed ==
    /\ text = HdfcExample
    /\ returned.returned
    /\ parser = "parse_hdfc"
    /\ returned.value.card_last_4_digits # None

\* C6: for the HDFC example text the transactions are exactly one Transaction,
\* of date "23/10/2024", description "SOME MERCHANT" and amount "-1,234.56";
\* the summary row under the header is no Transaction.
C6_HdfcExampleOneTransaction ==
    text = HdfcExample /\ returned.returned =>
        returned.value.transactions = <<Transaction(<<"2","3","/","1","0","/","2","0","2","4">>, <<"S","O","M","E"," ","M","E","R","C","H","A","N","T">>, <<"-","1",",","2","3","4",".","5","6">>)>>

\* C6: the HDFC example text has been parsed and has transactions.
C6_HdfcExampleTransactions ==
    /\ text = HdfcExample
    /\ returned.returned
    /\ Len(returned.value.transactions) > 0

\* C7: every grammar returns a Statement without raising: a field whose
\* patterns have no match is null, the other fields are what their own
\* patterns yield, issuer is set, transactions is a list; a missing field
\* neither aborts the parse nor changes another field.
C7_MissingFieldIsNullOnly ==
    /\ parser # "none" => raised = NoException /\ pc \notin {"raised"}
    /\ parser # "none" /\ pc = "done" => returned.returned
    /\ pc = "returned" =>
          /\ returned.value = result
          /\ returned.value.issuer = ParserIssuer(parser)
          /\ returned.value.issuer = issuer
          /\ \A key \in OptionalFields :
                returned.value[key] = None <=> ~SomeMatch(text, FieldPatterns(parser)[key])
          /\ returned.value.card_last_4_digits = CardOf(parser, text)
          /\ returned.value.billing_period = BillingOf(parser, text)
          /\ returned.value.payment_due_date = DueOf(parser, text)
          /\ returned.value.total_amount_due = TotalOf(parser, text)
          /\ DOMAIN returned.value.transactions = 1..Len(returned.value.transactions)
          /\ returned.value.transactions = TransactionsOf(parser, text)

\* C7: a Statement returned with no card number and everything else found.
C7_CardMissingRestFound ==
    /\ pc = "returned"
    /\ returned.value.card_last_4_digits = None
    /\ returned.value.billing_period # None
    /\ returned.value.payment_due_date # None
    /\ returned.value.total_amount_due # None
    /\ Len(returned.value.transactions) > 0

C9_SignConvention ==
    pc = "returned" =>
        \A matches \in {FindIter(text, TxPatternOf(parser), 1)} :
            /\ Len(returned.value.transactions) = Len(matches)
            /\ \A k \in 1..Len(matches) :
                  returned.value.transactions[k].amount = ConventionAmount(parser, text, matches[k])

\* C9: a transaction whose amount was captured with a sign and a Cr marker.
C9_SignedCredit ==
    /\ pc = "returned"
    /\ parser \in MarkedParsers
    /\ \E k \in 1..Len(returned.value.transactions) :
          /\ Len(returned.value.transactions[k].amount) > 1
          /\ SubSeq(returned.value.transactions[k].amount, 1, 2) = <<"-","-">>

\* C10: a total_amount_due that is not null is, for HDFC, AXIS and IDFC, the
\* rupee sign followed by the trimmed captured numeric string, and for CHASE
\* and ICICI the trimmed captured substring with no symbol added.
C10_TotalAmountFormat ==
    pc = "returned" /\ returned.value.total_amount_due # None =>
        returned.value.total_amount_due =
            IF returned.value.issuer \in {"HDFC", "AXIS", "IDFC"}
            THEN Rupee \o Captured(text, FieldPatterns(parser).total_amount_due)
            ELSE Captured(text, FieldPatterns(parser).total_amount_due)

\* C10: an AXIS Statement returned with a total_amount_due.
C10_AxisTotal ==
    /\ pc = "returned"
    /\ returned.value.issuer = "AXIS"
    /\ returned.value.total_amount_due # None


\* The date token each grammar's transaction pattern starts with.
DateTokenOf(p) ==
    CASE p = "parse_hdfc" -> DateDMY [] p = "parse_axis" -> DateDMY [] p = "parse_idfc" -> DateDMY
      [] p = "parse_icici" -> DateDMonY
      [] p = "parse_chase" -> <<Times(D, 1, 2)>> \o Lit(<<"/">>) \o <<Times(D, 1, 2)>>

\* C11: the transactions list holds one Transaction per non-overlapping match
\* of the issuer's transaction pattern, in the order of the matches in the
\* text; equal lines give equal entries, none dropped; a text with no date
\* token of the issuer's format gives an empty list, not an error.
C11_OneTransactionPerMatch ==
    returned.returned =>
        /\ \A matches \in {FindIter(text, TxPatternOf(parser), 1)} :
              /\ Len(returned.value.transactions) = Len(matches)
              /\ \A k \in 1..Len(matches) :
                    /\ returned.value.transactions[k].date = Strip(Group(text, matches[k], 1))
                    /\ returned.value.transactions[k].description = Strip(Group(text, matches[k], 2))
                    /\ returned.value.transactions[k].amount
                           \in {Strip(Group(text, matches[k], 3)), <<"-">> \o Strip(Group(text, matches[k], 3))}
              /\ \A k \in 1..(Len(matches) - 1) :
                    /\ matches[k].start < matches[k].end
                    /\ matches[k].end <= matches[k + 1].start
        /\ (\A token \in {Search(text, DateTokenOf(parser))} : ~token.ok) =>
              returned.value.transactions = <<>>

\* C11: a Statement of icici, chase or idfc returned with two equal transactions.
C11_EqualEntriesKept ==
    /\ returned.returned
    /\ parser \notin MarkedParsers
    /\ Len(returned.value.transactions) = 2
    /\ returned.value.transactions[1] = returned.value.transactions[2]

\* Payment\s+Due\s+Date
DueHeader == LitI(<<"P","a","y","m","e","n","t">>) \o <<S1>> \o LitI(<<"D","u","e">>) \o <<S1>> \o LitI(<<"D","a","t","e">>)

\* The due-date header of a grammar that skips, then the billing-period dates,
\* then the due date (group 1) after them.
DueAfterPeriod(p) ==
    (IF p = "parse_hdfc" THEN HdfcSummaryHeader ELSE DueHeader)
    \o <<S1>> \o Grp(2, DateDMY) \o <<S0>> \o Lit(<<"-">>) \o <<S0>> \o Grp(3, DateDMY) \o <<S1>> \o Grp(1, DateDMY)

\* The due-date anchor of a grammar that does not skip, and the date next to it.
DueAdjacent(p) ==
    CASE p = "parse_icici" -> LitI(<<"d","u","e">>) \o <<S1>> \o LitI(<<"d","a","t","e">>) \o <<Opt(Lit(<<":">>)), S0>> \o Grp(1, DateDMonY)
      [] p = "parse_chase" -> DueHeader \o <<S1>> \o Grp(1, DateMDY)
      [] p = "parse_idfc" -> DueHeader \o <<S1>> \o Grp(1, DateDMY)

\* The parsers said to find the due date by a positional skip.
SkippingParsers == {"parse_hdfc", "parse_axis"}

\* C12: for AXIS and HDFC, when the data after the due-date header holds the
\* billing-period dates before the due date, payment_due_date is the date
\* after the billing-period dates and never one of them; for ICICI, IDFC and
\* CHASE payment_due_date is the date next to the due-date anchor.
C12_DueDatePosition ==
    returned.returned =>
        IF parser \in SkippingParsers
        THEN \A m \in {Search(text, DueAfterPeriod(parser))} :
                 m.ok =>
                     /\ returned.value.payment_due_date = Group(text, m, 1)
                     /\ returned.value.payment_due_date \notin {Group(text, m, 2), Group(text, m, 3)}
        ELSE \A m \in {Search(text, DueAdjacent(parser))} :
                 m.ok => returned.value.payment_due_date = Group(text, m, 1)

\* C12: an HDFC Statement returned for a text whose summary row holds the
\* billing-period dates before the due date.
C12_HdfcPeriodFirst ==
    /\ returned.returned
    /\ parser = "parse_hdfc"
    /\ returned.value.payment_due_date # None
    /\ \A m \in {Search(text, DueAfterPeriod(parser))} : m.ok


\* C13: in parse_hdfc the secondary "Total Dues" pattern is applied only when
\* the primary table-header pattern has no match: when the primary matches,
\* total_amount_due comes from the primary capture whatever the secondary
\* would capture, and it is null only when both patterns fail.
C13_SecondaryOnlyIfPrimaryFails ==
    returned.returned /\ parser = "parse_hdfc" =>
        \A primary \in {Search(text, HdfcTotalPattern)}, secondary \in {Search(text, HdfcTotalAltPattern)} :
            /\ primary.ok => returned.value.total_amount_due = Rupee \o Strip(Group(text, primary, 1))
            /\ ~primary.ok /\ secondary.ok =>
                   returned.value.total_amount_due = Rupee \o Strip(Group(text, secondary, 1))
            /\ returned.value.total_amount_due = None <=> ~primary.ok /\ ~secondary.ok

\* C13: an HDFC Statement returned for a text in which both patterns match,
\* with different captures.
C13_BothMatch ==
    /\ returned.returned
    /\ parser = "parse_hdfc"
    /\ \A primary \in {Search(text, HdfcTotalPattern)}, secondary \in {Search(text, HdfcTotalAltPattern)} :
          /\ primary.ok
          /\ secondary.ok
          /\ Group(text, primary, 1) # Group(text, secondary, 1)
          /\ returned.value.total_amount_due = Rupee \o Strip(Group(text, primary, 1))

\* The parser function of each tag.
ParserOfTag(tag) ==
    CASE tag = "HDFC" -> "parse_hdfc" [] tag = "ICICI" -> "parse_icici" [] tag = "AXIS" -> "parse_axis"
      [] tag = "CHASE" -> "parse_chase" [] tag = "IDFC" -> "parse_idfc"

\* C14: when detect_issuer succeeds, parse_statement dispatches to the parser
\* of the detected tag and the returned Statement's issuer is that tag; the
\* dispatch table covers every tag detect_issuer returns, so the "No parser
\* available for issuer" error is never raised.
C14_DispatchCoversDetection ==
    /\ raised.msg # <<>> => raised.msg[1] # "No parser available for issuer: "
    /\ issuer # "unset" =>
          /\ issuer \in IssuerTags
          /\ pc # "dispatch" =>
                /\ raised = NoException
                /\ parser = ParserOfTag(issuer)
                /\ result.issuer = issuer
          /\ pc \in {"returned", "done"} =>
                /\ returned.returned
                /\ returned.value.issuer = issuer

\* C14: a Statement returned by the parser of the last tag of the table.
C14_IdfcDispatched ==
    /\ returned.returned
    /\ issuer = "IDFC"
    /\ parser = "parse_idfc"
    /\ returned.value.issuer = "IDFC"

\* A signed numeric str: an optional "-", 1-3 digits, groups of a comma and
\* 3 digits, a dot and two decimals, and nothing else.
WellFormedAmount(amount) == MatchAt(amount, SignedAmount \o <<Eol>>, 1, NoGroups).ok /\ amount[Len(amount)] # "\n"

\* C15: every Transaction amount is a well-formed signed numeric str with at
\* most one leading minus sign, and every Transaction description is a
\* non-empty trimmed str; an HDFC or AXIS line whose captured amount is
\* negative and is followed by Cr gives no doubly-signed amount.
C15_WellFormedTransactions ==
    returned.returned =>
        \A k \in 1..Len(returned.value.transactions) :
            /\ WellFormedAmount(returned.value.transactions[k].amount)
            /\ Trimmed(returned.value.transactions[k].description)

\* C15: an HDFC or AXIS Statement returned for a text with a transaction line
\* whose captured amount is negative and is followed by Cr.
C15_NegativeCredit ==
    /\ returned.returned
    /\ parser \in MarkedParsers
    /\ \A matches \in {FindIter(text, TxPatternOf(parser), 1)} :
          \E k \in 1..Len(matches) :
              /\ Head(Group(text, matches[k], 3)) = "-"
              /\ Group(text, matches[k], 4) # None
              /\ Lower(Group(text, matches[k], 4)) = <<"c","r">>

\* C16: in both handlers a temporary file created for an upload no longer
\* exists once the handler has produced its response, on every path; and no
\* temporary file is created for a request rejected by validation.
C16_TempFileRemoved ==
    entry \in Handlers /\ pc = "done" =>
        /\ tmp.file # "exists"
        /\ FailsValidation(request) => tmp.file = "none"

\* C16: a response produced after the upload's temporary file was created and
\* the try block raised an exception other than UnsupportedIssuerError.
C16_OtherExceptionAnswered ==
    /\ entry \in Handlers
    /\ pc = "done"
    /\ tmp.file # "none"
    /\ raised # NoException
    /\ raised.type # "UnsupportedIssuerError"
    /\ response.status = 500
=============================================================================
